---- MODULE Spec2Model ----
(***************************************************************************)
(* Model of the ircpoker hand evaluator (full variant, src/unnamed/       *)
(* part_000): sort, promote_aces, rank_hand and handcmp.                   *)
(*                                                                         *)
(* A card is a record [value, suit]; a hand is a sequence of five cards.   *)
(* C arrays a[0..n-1] are functions over 1..n here, so C index k is k+1.   *)
(***************************************************************************)
EXTENDS Integers, Sequences, FiniteSets, TLC

(***************************************************************************)
(* ranks_t: the enumeration of hand.h, weakest to strongest.               *)
(***************************************************************************)
HIGHCARD == 0
ONEPAIR == 1
TWOPAIR == 2
THREEKIND == 3
STRAIGHT == 4
FLUSH == 5
FULLHOUSE == 6
FOURKIND == 7
STRAIGHTFLUSH == 8
ROYALFLUSH == 9

\* "no value yet": a call that has not returned
NoRank == 0 - 1
NoResult == 0 - 2

(***************************************************************************)
(* void sort(int a[], int n): insertion sort, in place, ascending.         *)
(***************************************************************************)
RECURSIVE ShiftInsert(_, _, _)
\* the inner loop: for (j = i - 1; j >= 0 && a[j] > value; j--) a[j+1] = a[j];
\* then a[j+1] = value
ShiftInsert(a, j, value) ==
    IF j >= 1 /\ a[j] > value
    THEN ShiftInsert([a EXCEPT ![j + 1] = a[j]], j - 1, value)
    ELSE [a EXCEPT ![j + 1] = value]

RECURSIVE SortFrom(_, _, _)
\* the outer loop: for (i = 1; i < n; i++)
SortFrom(a, i, n) ==
    IF i > n THEN a ELSE SortFrom(ShiftInsert(a, i - 1, a[i]), i + 1, n)

sort(a, n) == SortFrom(a, 2, n)

(***************************************************************************)
(* void promote_aces(int handvals[]): every 1 becomes 14, then sort.       *)
(***************************************************************************)
\* promote_aces without the promotion: the array is only sorted
promote_aces_SortOnly(handvals) == sort(handvals, 5)

promote_aces(handvals) ==
    sort([i \in 1..5 |-> IF handvals[i] = 1 THEN 14 ELSE handvals[i]], 5)

(***************************************************************************)
(* ranks_t rank_hand(card_t hand[])                                        *)
(***************************************************************************)
\* handvals[i] = hand[i].value
Values(hand) == [i \in 1..5 |-> hand[i].value]

\* histogram[hand[i].value - 1]++ over 13 buckets, then sort(histogram, 13)
SortedHistogram(hand) ==
    sort([v \in 1..13 |-> Cardinality({i \in 1..5 : hand[i].value = v})], 13)

\* switch (histogram[12]): the categories made of multiples, or no return
MultiplesRank(hand) ==
    LET histogram == SortedHistogram(hand)
    IN  CASE histogram[13] = 4 -> FOURKIND
          [] histogram[13] = 3 -> IF histogram[12] = 2 THEN FULLHOUSE ELSE THREEKIND
          [] histogram[13] = 2 -> IF histogram[12] = 2 THEN TWOPAIR ELSE ONEPAIR
          [] OTHER -> NoRank

\* int flush = 1; for (i = 1; i < 5; i++) if (hand[i].suit == hand[0].suit) flush++;
FlushCount(hand) == 1 + Cardinality({i \in 2..5 : hand[i].suit = hand[1].suit})

\* the two tests under the label straights in the other order: the flush is
\* never looked at
StraightsRank_StraightFirst(handvals, flush) ==
    IF handvals[5] - handvals[1] = 4 THEN STRAIGHT
    ELSE IF handvals[5] - handvals[1] = 4 /\ flush = 5 THEN STRAIGHTFLUSH
    ELSE NoRank

\* the two tests under the label straights; NoRank when neither returns
StraightsRank(handvals, flush) ==
    IF handvals[5] - handvals[1] = 4 /\ flush = 5 THEN STRAIGHTFLUSH
    ELSE IF handvals[5] - handvals[1] = 4 THEN STRAIGHT
    ELSE NoRank

\* handvals[0] = 14; sort; royal flush, flush or high card
FlushRank(handvals, flush) ==
    LET hv == sort([handvals EXCEPT ![1] = 14], 5)
    IN  IF hv[5] - hv[1] = 4 /\ flush = 5 THEN ROYALFLUSH
        ELSE IF flush = 5 THEN FLUSH
        ELSE HIGHCARD

RECURSIVE straights(_, _)
\* the label straights with its goto: a retry after promote_aces when the
\* lowest value is 1
straights(handvals, flush) ==
    LET r == StraightsRank(handvals, flush)
    IN  IF r # NoRank THEN r
        ELSE IF handvals[1] = 1 THEN straights(promote_aces(handvals), flush)
        ELSE FlushRank(handvals, flush)

rank_hand(hand) ==
    LET r == MultiplesRank(hand)
    IN  IF r # NoRank THEN r
        ELSE straights(sort(Values(hand), 5), FlushCount(hand))

(***************************************************************************)
(* int handcmp(card_t hand1[], card_t hand2[])                             *)
(*                                                                         *)
(* The locals third_cardN, fourth_cardN and fifth_cardN are declared       *)
(* without an initial value: at entry they hold whatever the stack holds.  *)
(* K is the set of records [third_card, fourth_card, fifth_card] one       *)
(* hand's three locals may hold at entry, and handcmp is the set of the    *)
(* values the call can return.                                             *)
(***************************************************************************)
RECURSIVE Cascade(_)
\* if (x < y) return -1; if (x > y) return 1; repeated over a list of
\* <<x, y>>, then return 0
Cascade(pairs) ==
    IF pairs = <<>> THEN 0
    ELSE IF Head(pairs)[1] < Head(pairs)[2] THEN 0 - 1
    ELSE IF Head(pairs)[1] > Head(pairs)[2] THEN 1
    ELSE Cascade(Tail(pairs))

\* case STRAIGHT, STRAIGHTFLUSH with the aces promoted whatever the last card
CmpStraight_AlwaysPromote(handvals1, handvals2) ==
    LET hv1 == sort(promote_aces(handvals1), 5)
        hv2 == sort(promote_aces(handvals2), 5)
    IN  Cascade(<< <<hv1[5], hv2[5]>> >>)

\* case STRAIGHT, STRAIGHTFLUSH with no ace promoted (as the alternate
\* src/hand.c compares)
CmpStraight_NoPromote(handvals1, handvals2) ==
    Cascade(<< <<handvals1[5], handvals2[5]>> >>)

\* case STRAIGHT, STRAIGHTFLUSH
CmpStraight(handvals1, handvals2) ==
    LET hv1 == sort(IF handvals1[5] = 13 THEN promote_aces(handvals1) ELSE handvals1, 5)
        hv2 == sort(IF handvals2[5] = 13 THEN promote_aces(handvals2) ELSE handvals2, 5)
    IN  Cascade(<< <<hv1[5], hv2[5]>> >>)

\* case FLUSH, HIGHCARD
CmpHighCard(handvals1, handvals2) ==
    LET hv1 == promote_aces(handvals1)
        hv2 == promote_aces(handvals2)
    IN  Cascade([k \in 1..5 |-> <<hv1[6 - k], hv2[6 - k]>>])

\* case FOURKIND
CmpFourKind(handvals1, handvals2) ==
    LET hv1 == promote_aces(handvals1)
        hv2 == promote_aces(handvals2)
        fifth_card1 == IF hv1[1] # hv1[3] THEN hv1[1] ELSE hv1[5]
        fifth_card2 == IF hv2[1] # hv2[3] THEN hv2[1] ELSE hv2[5]
    IN  Cascade(<< <<hv1[3], hv2[3]>>, <<fifth_card1, fifth_card2>> >>)

\* case FULLHOUSE
CmpFullHouse(handvals1, handvals2) ==
    LET hv1 == promote_aces(handvals1)
        hv2 == promote_aces(handvals2)
        full_of1 == IF hv1[2] # hv1[3] THEN hv1[2] ELSE hv1[4]
        full_of2 == IF hv2[2] # hv2[3] THEN hv2[2] ELSE hv2[4]
    IN  Cascade(<< <<hv1[3], hv2[3]>>, <<full_of1, full_of2>> >>)

\* case THREEKIND: the first if/else leaves fourth_card for the second
\* if/else, which always assigns it
CmpThreeKind(handvals1, handvals2) ==
    LET hv1 == promote_aces(handvals1)
        hv2 == promote_aces(handvals2)
        fifth_card1 == IF hv1[1] = hv1[3] THEN hv1[4] ELSE hv1[1]
        fourth_card1 == IF hv1[2] = hv1[3] THEN hv1[5] ELSE hv1[2]
        fifth_card2 == IF hv2[1] = hv2[3] THEN hv2[4] ELSE hv2[1]
        fourth_card2 == IF hv2[2] = hv2[3] THEN hv2[5] ELSE hv2[2]
    IN  Cascade(<< <<hv1[3], hv2[3]>>, <<fourth_card1, fourth_card2>>,
                   <<fifth_card1, fifth_card2>> >>)

\* histogramN[handvalsN[i]]++ over the 15 buckets 0..14
Histogram15(handvals) ==
    [v \in 0..14 |-> Cardinality({i \in 1..5 : handvals[i] = v})]

RECURSIVE TwoPairScan(_, _, _)
\* case TWOPAIR: for (i = 2; i < 15; i++) over one hand's histogram;
\* s = [first_pair, second_pair, fifth_card]
TwoPairScan(histogram, i, s) ==
    IF i > 14 THEN s
    ELSE LET s1 == IF histogram[i] = 1 THEN [s EXCEPT !.fifth_card = i] ELSE s
             s2 == IF histogram[i] = 2
                   THEN IF s1.first_pair # 0
                        THEN [s1 EXCEPT !.second_pair = i]
                        ELSE [s1 EXCEPT !.first_pair = i]
                   ELSE s1
         IN  TwoPairScan(histogram, i + 1, s2)

\* case TWOPAIR: "make sure the first pair is higher than the second pair"
OrderPairs(s) ==
    IF s.first_pair < s.second_pair
    THEN [s EXCEPT !.first_pair = s.second_pair, !.second_pair = s.first_pair]
    ELSE s

CmpTwoPair(handvals1, handvals2, K) ==
    LET histogram1 == Histogram15(promote_aces(handvals1))
        histogram2 == Histogram15(promote_aces(handvals2))
        S1 == {OrderPairs(TwoPairScan(histogram1, 2,
                  [first_pair |-> 0, second_pair |-> 0, fifth_card |-> k.fifth_card])) :
               k \in K}
        S2 == {OrderPairs(TwoPairScan(histogram2, 2,
                  [first_pair |-> 0, second_pair |-> 0, fifth_card |-> k.fifth_card])) :
               k \in K}
    IN  {Cascade(<< <<s1.first_pair, s2.first_pair>>, <<s1.second_pair, s2.second_pair>>,
                    <<s1.fifth_card, s2.fifth_card>> >>) : s1 \in S1, s2 \in S2}

RECURSIVE OnePairScan(_, _, _, _)
\* case ONEPAIR: "find both pairs and then break"; fp = <<first_pair1, first_pair2>>
OnePairScan(histogram1, histogram2, i, fp) ==
    IF i > 14 THEN fp
    ELSE LET fp1 == IF histogram1[i] = 2 THEN i ELSE fp[1]
             fp2 == IF histogram2[i] = 2 THEN i ELSE fp[2]
         IN  IF fp1 # 0 /\ fp2 # 0 THEN <<fp1, fp2>>
             ELSE OnePairScan(histogram1, histogram2, i + 1, <<fp1, fp2>>)

RECURSIVE OnePairKickers(_, _, _, _)
\* case ONEPAIR: "find third, fourth, and fifth cards" of one hand;
\* k = [third_card, fourth_card, fifth_card]
OnePairKickers(handvals, first_pair, i, k) ==
    IF i > 5 THEN k
    ELSE LET k1 == IF handvals[i] # first_pair
                   THEN IF k.fifth_card = 0 THEN [k EXCEPT !.fifth_card = handvals[i]]
                        ELSE IF k.fourth_card = 0 THEN [k EXCEPT !.fourth_card = handvals[i]]
                        ELSE [k EXCEPT !.third_card = handvals[i]]
                   ELSE k
         IN  OnePairKickers(handvals, first_pair, i + 1, k1)

\* case ONEPAIR: "compare the pairs"
OnePairResult(first_pair1, first_pair2) ==
    IF first_pair1 > first_pair2 THEN 1 ELSE 0

CmpOnePair(handvals1, handvals2, K) ==
    LET hv1 == promote_aces(handvals1)
        hv2 == promote_aces(handvals2)
        fp == OnePairScan(Histogram15(hv1), Histogram15(hv2), 2, <<0, 0>>)
        K1 == {OnePairKickers(hv1, fp[1], 1, k) : k \in K}
        K2 == {OnePairKickers(hv2, fp[2], 1, k) : k \in K}
    IN  IF fp[1] # fp[2] THEN {OnePairResult(fp[1], fp[2])}
        ELSE {Cascade(<< <<k1.third_card, k2.third_card>>,
                         <<k1.fourth_card, k2.fourth_card>>,
                         <<k1.fifth_card, k2.fifth_card>> >>) : k1 \in K1, k2 \in K2}

\* "return result if ranks differ"
CmpRanks(rank1, rank2) ==
    IF rank1 < rank2 THEN 0 - 1 ELSE IF rank1 > rank2 THEN 1 ELSE 0

\* switch (rank1), the ranks being the same
TieBreak(rank1, handvals1, handvals2, K) ==
    CASE rank1 = ROYALFLUSH -> {0}
      [] rank1 \in {STRAIGHT, STRAIGHTFLUSH} -> {CmpStraight(handvals1, handvals2)}
      [] rank1 \in {FLUSH, HIGHCARD} -> {CmpHighCard(handvals1, handvals2)}
      [] rank1 = FOURKIND -> {CmpFourKind(handvals1, handvals2)}
      [] rank1 = FULLHOUSE -> {CmpFullHouse(handvals1, handvals2)}
      [] rank1 = THREEKIND -> {CmpThreeKind(handvals1, handvals2)}
      [] rank1 = TWOPAIR -> CmpTwoPair(handvals1, handvals2, K)
      [] rank1 = ONEPAIR -> CmpOnePair(handvals1, handvals2, K)
      [] OTHER -> {0}

handcmp(hand1, hand2, K) ==
    LET rank1 == rank_hand(hand1)
        rank2 == rank_hand(hand2)
    IN  IF rank1 # rank2 THEN {CmpRanks(rank1, rank2)}
        ELSE TieBreak(rank1, sort(Values(hand1), 5), sort(Values(hand2), 5), K)

(***************************************************************************)
(* The same call, followed local by local: every case of the switch as the *)
(* sequence of its reads <<"r", v>> and assignments <<"w", v>> of the      *)
(* kicker locals, v = <<name, N>> for nameN (third_card1 .. fifth_card2).  *)
(* The two hands' locals are different variables, so one hand's events are *)
(* listed before the other's where the code takes them in turn.            *)
(***************************************************************************)
Rd(name, n) == <<"r", <<name, n>> >>
Wr(name, n) == <<"w", <<name, n>> >>

RECURSIVE ReadsBeforeWrite(_, _)
\* the locals an event sequence reads while they are not among the assigned
\* ones, W
ReadsBeforeWrite(events, W) ==
    IF events = <<>> THEN {}
    ELSE IF Head(events)[1] = "w"
    THEN ReadsBeforeWrite(Tail(events), W \cup {Head(events)[2]})
    ELSE (IF Head(events)[2] \in W THEN {} ELSE {Head(events)[2]})
             \cup ReadsBeforeWrite(Tail(events), W)

\* the locals assigned where they are declared: none of the six kicker locals
\* (first_pairN and second_pairN are, to 0)
AssignedAtEntry == {}

RECURSIVE CascadeEvents(_, _)
\* the reads of if (x1 < x2) return -1; if (x1 > x2) return 1; over the named
\* locals, up to the first difference
CascadeEvents(pairs, names) ==
    IF pairs = <<>> THEN <<>>
    ELSE <<Rd(Head(names), 1), Rd(Head(names), 2)>> \o
         (IF Head(pairs)[1] # Head(pairs)[2] THEN <<>>
          ELSE CascadeEvents(Tail(pairs), Tail(names)))

\* case FOURKIND
FourKindEvents(handvals1, handvals2) ==
    LET hv1 == promote_aces(handvals1)
        hv2 == promote_aces(handvals2)
    IN  IF hv1[3] # hv2[3] THEN <<>>
        ELSE <<Wr("fifth_card", 1), Wr("fifth_card", 2),
               Rd("fifth_card", 1), Rd("fifth_card", 2)>>

\* case THREEKIND, one hand: "find the fourth and fifth cards"
ThreeKindWrites(hv, n) ==
    (IF hv[1] = hv[3] THEN <<Wr("fourth_card", n), Wr("fifth_card", n)>>
     ELSE <<Wr("fifth_card", n)>>) \o <<Wr("fourth_card", n)>>

\* case THREEKIND
ThreeKindEvents(handvals1, handvals2) ==
    LET hv1 == promote_aces(handvals1)
        hv2 == promote_aces(handvals2)
        fourth_card1 == IF hv1[2] = hv1[3] THEN hv1[5] ELSE hv1[2]
        fourth_card2 == IF hv2[2] = hv2[3] THEN hv2[5] ELSE hv2[2]
    IN  IF hv1[3] # hv2[3] THEN <<>>
        ELSE ThreeKindWrites(hv1, 1) \o ThreeKindWrites(hv2, 2) \o
             CascadeEvents(<< <<fourth_card1, fourth_card2>>, <<0, 0>> >>,
                           <<"fourth_card", "fifth_card">>)

RECURSIVE TwoPairWrites(_, _, _)
\* case TWOPAIR, one hand: if (histogramN[i] == 1) fifth_cardN = i; over
\* i = 2 .. 14
TwoPairWrites(histogram, i, n) ==
    IF i > 14 THEN <<>>
    ELSE (IF histogram[i] = 1 THEN <<Wr("fifth_card", n)>> ELSE <<>>) \o
         TwoPairWrites(histogram, i + 1, n)

\* case TWOPAIR: fifth_cardN is read when both pairs are the same
TwoPairEvents(handvals1, handvals2) ==
    LET histogram1 == Histogram15(promote_aces(handvals1))
        histogram2 == Histogram15(promote_aces(handvals2))
        zero == [first_pair |-> 0, second_pair |-> 0, fifth_card |-> 0]
        s1 == OrderPairs(TwoPairScan(histogram1, 2, zero))
        s2 == OrderPairs(TwoPairScan(histogram2, 2, zero))
    IN  TwoPairWrites(histogram1, 2, 1) \o TwoPairWrites(histogram2, 2, 2) \o
        (IF s1.first_pair = s2.first_pair /\ s1.second_pair = s2.second_pair
         THEN <<Rd("fifth_card", 1), Rd("fifth_card", 2)>>
         ELSE <<>>)

RECURSIVE OnePairKickerEvents(_, _, _, _, _)
\* case ONEPAIR, one hand: "find third, fourth, and fifth cards"; k is what
\* the three locals hold, as in OnePairKickers
OnePairKickerEvents(handvals, first_pair, i, k, n) ==
    IF i > 5 THEN <<>>
    ELSE IF handvals[i] = first_pair
    THEN OnePairKickerEvents(handvals, first_pair, i + 1, k, n)
    ELSE IF k.fifth_card = 0
    THEN <<Rd("fifth_card", n), Wr("fifth_card", n)>> \o
         OnePairKickerEvents(handvals, first_pair, i + 1,
                             [k EXCEPT !.fifth_card = handvals[i]], n)
    ELSE IF k.fourth_card = 0
    THEN <<Rd("fifth_card", n), Rd("fourth_card", n), Wr("fourth_card", n)>> \o
         OnePairKickerEvents(handvals, first_pair, i + 1,
                             [k EXCEPT !.fourth_card = handvals[i]], n)
    ELSE <<Rd("fifth_card", n), Rd("fourth_card", n), Wr("third_card", n)>> \o
         OnePairKickerEvents(handvals, first_pair, i + 1,
                             [k EXCEPT !.third_card = handvals[i]], n)

\* case ONEPAIR entered with the locals holding k1 and k2
OnePairEvents(handvals1, handvals2, k1, k2) ==
    LET hv1 == promote_aces(handvals1)
        hv2 == promote_aces(handvals2)
        fp == OnePairScan(Histogram15(hv1), Histogram15(hv2), 2, <<0, 0>>)
        e1 == OnePairKickers(hv1, fp[1], 1, k1)
        e2 == OnePairKickers(hv2, fp[2], 1, k2)
    IN  IF fp[1] # fp[2] THEN <<>>
        ELSE OnePairKickerEvents(hv1, fp[1], 1, k1, 1) \o
             OnePairKickerEvents(hv2, fp[2], 1, k2, 2) \o
             CascadeEvents(<< <<e1.third_card, e2.third_card>>,
                              <<e1.fourth_card, e2.fourth_card>>,
                              <<e1.fifth_card, e2.fifth_card>> >>,
                           <<"third_card", "fourth_card", "fifth_card">>)

\* the events of switch (rank1), the ranks being the same, in the cases
\* where they do not depend on what the locals hold at entry
TieBreakEvents(rank1, handvals1, handvals2) ==
    CASE rank1 = FOURKIND -> FourKindEvents(handvals1, handvals2)
      [] rank1 = THREEKIND -> ThreeKindEvents(handvals1, handvals2)
      [] rank1 = TWOPAIR -> TwoPairEvents(handvals1, handvals2)
      [] OTHER -> <<>>

\* case ONEPAIR entered with the locals holding k1 and k2: the value returned
OnePairReturn(handvals1, handvals2, k1, k2) ==
    LET hv1 == promote_aces(handvals1)
        hv2 == promote_aces(handvals2)
        fp == OnePairScan(Histogram15(hv1), Histogram15(hv2), 2, <<0, 0>>)
        e1 == OnePairKickers(hv1, fp[1], 1, k1)
        e2 == OnePairKickers(hv2, fp[2], 1, k2)
    IN  IF fp[1] # fp[2] THEN OnePairResult(fp[1], fp[2])
        ELSE Cascade(<< <<e1.third_card, e2.third_card>>,
                        <<e1.fourth_card, e2.fourth_card>>,
                        <<e1.fifth_card, e2.fifth_card>> >>)

\* handcmp(hand1, hand2) with the locals it reads before it assigns them: the
\* set of the [result, unassigned] the call can end with, over what the
\* locals hold at entry
handcmp_unassigned(hand1, hand2, K) ==
    LET rank1 == rank_hand(hand1)
        rank2 == rank_hand(hand2)
        handvals1 == sort(Values(hand1), 5)
        handvals2 == sort(Values(hand2), 5)
    IN  IF rank1 # rank2
        THEN {[result |-> CmpRanks(rank1, rank2), unassigned |-> {}]}
        ELSE IF rank1 = ONEPAIR
        THEN {[result |-> OnePairReturn(handvals1, handvals2, k1, k2),
               unassigned |-> ReadsBeforeWrite(
                   OnePairEvents(handvals1, handvals2, k1, k2), AssignedAtEntry)] :
              k1 \in K, k2 \in K}
        ELSE {[result |-> r,
               unassigned |-> ReadsBeforeWrite(
                   TieBreakEvents(rank1, handvals1, handvals2), AssignedAtEntry)] :
              r \in TieBreak(rank1, handvals1, handvals2, K)}

(***************************************************************************)
(* The callers' side: hands are dealt, hand1 is ranked (rank_hand, one     *)
(* step per pass through its labels) and the hands are compared with       *)
(* handcmp, one call per step, in the order the list todo gives.           *)
(***************************************************************************)
VARIABLES hand1, hand2, hand3, todo, pc, handvals, flush, passes, rank,
          rankp, r11, r12, r21, rp12, r23, r13, unassigned

vars == <<hand1, hand2, hand3, todo, pc, handvals, flush, passes, rank,
          rankp, r11, r12, r21, rp12, r23, r13, unassigned>>

\* the suits of card_t
NumSuits == 4
\* the ranks 1 .. MaxLow make the short deck of the two- and three-hand games
MaxLow == 6
\* the suit patterns dealt: 0 .. MaxPattern
MaxPattern == 3
\* the deal orders: the sorted hand rotated left by 0 .. MaxRot places
MaxRot == 1
\* the values an unassigned local may hold: 0 .. MaxGarbage
MaxGarbage == 1
\* the passes from the label straights the model follows in one call
MaxPasses == 4

\* nondecreasing value sequences over the ranks R, no value more than
\* NumSuits times
ValueSeqs(R) ==
    {v \in [1..5 -> R] : (\A i \in 1..4 : v[i] <= v[i + 1]) /\ v[1] # v[5]}

\* those with five different values
DistinctSeqs(R) == {v \in ValueSeqs(R) : \A i \in 1..4 : v[i] # v[i + 1]}

\* those with no value more than twice
PairSeqs(R) == {v \in ValueSeqs(R) : \A i \in 1..3 : v[i] # v[i + 2]}

\* pattern 0 walks the suits; pattern k >= 1 is one suit for all cards but
\* card k - 1 (pattern 1: a flush)
SuitOf(pattern, i) ==
    IF pattern = 0 THEN ((i - 1) % NumSuits) + 1
    ELSE IF i = pattern - 1 THEN 2 ELSE 1

Rotate(h, k) == [i \in 1..5 |-> h[((i - 1 + k) % 5) + 1]]

Deal(v, pattern, k) ==
    Rotate([i \in 1..5 |-> [value |-> v[i], suit |-> SuitOf(pattern, i)]], k)

\* no card twice in a hand
ValidHand(h) == \A i, j \in 1..5 : i # j => h[i] # h[j]

HandsOver(seqs, patterns, rots) ==
    {h \in {Deal(v, p, k) : v \in seqs, p \in patterns, k \in rots} : ValidHand(h)}

\* what one hand's three unassigned locals may hold at entry
Garbage ==
    [third_card : 0..MaxGarbage, fourth_card : 0..MaxGarbage, fifth_card : 0..MaxGarbage]

\* a reordering of a hand: places i and j swapped, then the hand reversed
Reorder(h, i, j) ==
    [k \in 1..5 |-> LET m == 6 - k
                    IN  IF m = i THEN h[j] ELSE IF m = j THEN h[i] ELSE h[m]]

Start(calls) ==
    /\ todo = calls
    /\ pc = "entry"
    /\ handvals = [i \in 1..5 |-> 0]
    /\ flush = 1
    /\ passes = 0
    /\ rank = NoRank
    /\ rankp = NoRank
    /\ r11 = NoResult /\ r12 = NoResult /\ r21 = NoResult
    /\ rp12 = NoResult /\ r23 = NoResult /\ r13 = NoResult
    /\ unassigned = {}

Doing(call) == todo # <<>> /\ Head(todo) = call

\* rank_hand(hand1) up to the label straights
RankEntry ==
    /\ Doing("rank_hand") /\ pc = "entry"
    /\ IF MultiplesRank(hand1) # NoRank
       THEN /\ rank' = MultiplesRank(hand1)
            /\ pc' = "returned"
            /\ todo' = Tail(todo)
            /\ UNCHANGED <<handvals, flush>>
       ELSE /\ flush' = FlushCount(hand1)
            /\ handvals' = sort(Values(hand1), 5)
            /\ pc' = "straights"
            /\ UNCHANGED <<rank, todo>>
    /\ UNCHANGED <<unassigned, hand1, hand2, hand3, passes, rankp, r11, r12, r21, rp12, r23, r13>>

\* one pass from the label straights: a return, the goto, or on to the
\* flush test
RankStraights ==
    /\ Doing("rank_hand") /\ pc = "straights"
    /\ passes < MaxPasses
    /\ passes' = passes + 1
    /\ IF StraightsRank(handvals, flush) # NoRank
       THEN /\ rank' = StraightsRank(handvals, flush)
            /\ pc' = "returned"
            /\ todo' = Tail(todo)
            /\ UNCHANGED handvals
       ELSE IF handvals[1] = 1
       THEN /\ handvals' = promote_aces(handvals)
            /\ UNCHANGED <<rank, pc, todo>>
       ELSE /\ pc' = "flush"
            /\ UNCHANGED <<rank, handvals, todo>>
    /\ UNCHANGED <<unassigned, hand1, hand2, hand3, flush, rankp, r11, r12, r21, rp12, r23, r13>>

\* "test for flush and royal flush"
RankFlush ==
    /\ Doing("rank_hand") /\ pc = "flush"
    /\ handvals' = sort([handvals EXCEPT ![1] = 14], 5)
    /\ rank' = FlushRank(handvals, flush)
    /\ pc' = "returned"
    /\ todo' = Tail(todo)
    /\ UNCHANGED <<unassigned, hand1, hand2, hand3, flush, passes, rankp, r11, r12, r21, rp12, r23, r13>>

\* rank_hand on the cards of hand1 in another order
RankReordered ==
    /\ Doing("rank_reordered")
    /\ \E i \in 1..4 : rankp' = rank_hand(Reorder(hand1, i, i + 1))
    /\ todo' = Tail(todo)
    /\ UNCHANGED <<unassigned, hand1, hand2, hand3, pc, handvals, flush, passes, rank,
                   r11, r12, r21, rp12, r23, r13>>

\* handcmp(hand1, hand1)
Compare11 ==
    /\ Doing("handcmp11")
    /\ r11' \in handcmp(hand1, hand1, Garbage)
    /\ todo' = Tail(todo)
    /\ UNCHANGED <<unassigned, hand1, hand2, hand3, pc, handvals, flush, passes, rank,
                   rankp, r12, r21, rp12, r23, r13>>

\* handcmp(hand1, hand2)
Compare12 ==
    /\ Doing("handcmp12")
    /\ r12' \in handcmp(hand1, hand2, Garbage)
    /\ todo' = Tail(todo)
    /\ UNCHANGED <<unassigned, hand1, hand2, hand3, pc, handvals, flush, passes, rank,
                   rankp, r11, r21, rp12, r23, r13>>

\* handcmp(hand2, hand1)
Compare21 ==
    /\ Doing("handcmp21")
    /\ r21' \in handcmp(hand2, hand1, Garbage)
    /\ todo' = Tail(todo)
    /\ UNCHANGED <<unassigned, hand1, hand2, hand3, pc, handvals, flush, passes, rank,
                   rankp, r11, r12, rp12, r23, r13>>

\* handcmp(hand1, hand2) on the same cards in another order
CompareReordered ==
    /\ Doing("handcmp_reordered")
    /\ \E i \in 1..4 :
          rp12' \in handcmp(Reorder(hand1, i, i + 1), Reorder(hand2, i, 5), Garbage)
    /\ todo' = Tail(todo)
    /\ UNCHANGED <<unassigned, hand1, hand2, hand3, pc, handvals, flush, passes, rank,
                   rankp, r11, r12, r21, r23, r13>>

\* handcmp(hand2, hand3)
Compare23 ==
    /\ Doing("handcmp23")
    /\ r23' \in handcmp(hand2, hand3, Garbage)
    /\ todo' = Tail(todo)
    /\ UNCHANGED <<unassigned, hand1, hand2, hand3, pc, handvals, flush, passes, rank,
                   rankp, r11, r12, r21, rp12, r13>>

\* handcmp(hand1, hand3)
Compare13 ==
    /\ Doing("handcmp13")
    /\ r13' \in handcmp(hand1, hand3, Garbage)
    /\ todo' = Tail(todo)
    /\ UNCHANGED <<unassigned, hand1, hand2, hand3, pc, handvals, flush, passes, rank,
                   rankp, r11, r12, r21, rp12, r23>>

(***************************************************************************)
(* One hand against itself: any five cards of the 13 ranks.                *)
(***************************************************************************)
AllHands == HandsOver(ValueSeqs(1..13), 0..MaxPattern, 0..MaxRot)

Init ==
    /\ hand1 \in AllHands
    /\ hand2 = hand1
    /\ hand3 = hand1
    /\ Start(<<"rank_hand", "rank_reordered", "handcmp11">>)

Next ==
    \/ RankEntry
    \/ RankStraights
    \/ RankFlush
    \/ RankReordered
    \/ Compare11

Spec == Init /\ [][Next]_vars

(***************************************************************************)
(* Two hands of a short deck: the ranks 1 .. MaxLow, two cards a rank.     *)
(***************************************************************************)
LowHands == HandsOver(PairSeqs(1..MaxLow), 0..1, {MaxRot})

PairCalls ==
    <<"rank_hand", "rank_reordered", "handcmp12", "handcmp21", "handcmp_reordered">>

NextPair ==
    \/ RankEntry
    \/ RankStraights
    \/ RankFlush
    \/ RankReordered
    \/ Compare12
    \/ Compare21
    \/ CompareReordered

InitPair ==
    /\ hand1 \in LowHands
    /\ hand2 \in LowHands
    /\ hand3 = hand2
    /\ Start(PairCalls)

SpecPair == InitPair /\ [][NextPair]_vars

(***************************************************************************)
(* Two hands of five different values around the two ends of the           *)
(* straights: Ace to Six, and Nine to King with the Ace.                   *)
(***************************************************************************)
StraightHands ==
    HandsOver(DistinctSeqs(1..6) \cup DistinctSeqs({1} \cup 9..13),
              0..MaxPattern, 0..MaxRot)

InitStraights ==
    /\ hand1 \in StraightHands
    /\ hand2 \in StraightHands
    /\ hand3 = hand2
    /\ Start(PairCalls)

SpecStraights == InitStraights /\ [][NextPair]_vars

(***************************************************************************)
(* Three hands of the short deck, compared two by two.                     *)
(***************************************************************************)
ThreeHands == HandsOver(PairSeqs(1..MaxLow - 1), {0}, {MaxRot})

InitThree ==
    /\ hand1 \in ThreeHands
    /\ hand2 \in ThreeHands
    /\ hand3 \in ThreeHands
    /\ Start(<<"handcmp12", "handcmp23", "handcmp13">>)

NextThree ==
    \/ Compare12
    \/ Compare23
    \/ Compare13

SpecThree == InitThree /\ [][NextThree]_vars

(***************************************************************************)
(* Two hands of the short deck, any multiples, compared once with the      *)
(* reads of unassigned locals recorded.                                    *)
(***************************************************************************)
\* handcmp(hand1, hand2), its locals followed
CompareUnassigned ==
    /\ Doing("handcmp_unassigned")
    /\ \E o \in handcmp_unassigned(hand1, hand2, Garbage) :
          /\ r12' = o.result
          /\ unassigned' = o.unassigned
    /\ todo' = Tail(todo)
    /\ UNCHANGED <<hand1, hand2, hand3, pc, handvals, flush, passes, rank,
                   rankp, r11, r21, rp12, r23, r13>>

MultipleHands == HandsOver(ValueSeqs(1..MaxLow), 0..1, {0})

InitUnassigned ==
    /\ hand1 \in MultipleHands
    /\ hand2 \in MultipleHands
    /\ hand3 = hand2
    /\ Start(<<"handcmp_unassigned">>)

NextUnassigned == CompareUnassigned

SpecUnassigned == InitUnassigned /\ [][NextUnassigned]_vars

(***************************************************************************)
(* Properties                                                              *)
(***************************************************************************)
ValueSet(h) == {h[i].value : i \in 1..5}
OneSuit(h) == \A i \in 1..5 : h[i].suit = h[1].suit
Returned(r) == r # NoResult

\* C1: handcmp(a, b) is the exact inverse of handcmp(b, a): one is -1 iff
\* the other is 1, and one is 0 iff the other is 0.
C1_Antisymmetry ==
    (Returned(r12) /\ Returned(r21)) =>
        /\ (r12 = 0 - 1) <=> (r21 = 1)
        /\ (r12 = 1) <=> (r21 = 0 - 1)
        /\ (r12 = 0) <=> (r21 = 0)

\* C2: handcmp(h, h) returns 0 for every valid hand h.
C2_Reflexivity == Returned(r11) => r11 = 0

\* C3: rank_hand and handcmp return the same on the same cards in another
\* order.
C3_PermutationInvariance ==
    /\ rankp # NoRank => rankp = rank
    /\ Returned(rp12) => rp12 = r12

\* C4: handcmp(a, b) <= 0 and handcmp(b, c) <= 0 give handcmp(a, c) <= 0,
\* and handcmp(a, c) = -1 when one of the two is -1.
C4_Transitivity ==
    (Returned(r12) /\ Returned(r23) /\ Returned(r13) /\ r12 <= 0 /\ r23 <= 0) =>
        /\ r13 <= 0
        /\ (r12 = 0 - 1 \/ r23 = 0 - 1) => r13 = 0 - 1

\* C5: rank_hand returns ROYALFLUSH only for five cards of one suit whose
\* ranks are exactly Ten, Jack, Queen, King, Ace.
C5_RoyalFlushIsTenToAce ==
    rank = ROYALFLUSH => (OneSuit(hand1) /\ ValueSet(hand1) = {1, 10, 11, 12, 13})

Wheel(h) == ValueSet(h) = {1, 2, 3, 4, 5} /\ ~OneSuit(h)
SixHigh(h) == ValueSet(h) = {2, 3, 4, 5, 6} /\ ~OneSuit(h)
AceHigh(h) == ValueSet(h) = {1, 10, 11, 12, 13} /\ ~OneSuit(h)
KingHigh(h) == ValueSet(h) = {9, 10, 11, 12, 13} /\ ~OneSuit(h)
TenToAceFlush(h) == ValueSet(h) = {1, 10, 11, 12, 13} /\ OneSuit(h)

\* C6: Ace,2,3,4,5 of mixed suits is ranked STRAIGHT, and handcmp returns -1
\* for it against any 2,3,4,5,6 of mixed suits.
C6_WheelStraight ==
    /\ (pc = "returned" /\ Wheel(hand1)) => rank = STRAIGHT
    /\ (Returned(r12) /\ Wheel(hand1) /\ SixHigh(hand2)) => r12 = 0 - 1

C6_Witness ==
    Wheel(hand1) /\ SixHigh(hand2) /\ rank = STRAIGHT /\ r12 = 0 - 1

\* the values with the Ace counted as 14
High(v) == IF v = 1 THEN 14 ELSE v
Count(h, v) == Cardinality({i \in 1..5 : h[i].value = v})
PairValue(h) == High(CHOOSE v \in ValueSet(h) : Count(h, v) = 2)
Kickers(h) == {High(v) : v \in {w \in ValueSet(h) : Count(h, w) = 1}}
Highest(S) == CHOOSE x \in S : \A y \in S : y <= x

RECURSIVE HighToLow(_, _)
\* two sets of the same size compared from the highest value down
HighToLow(A, B) ==
    IF A = {} \/ B = {} THEN 0
    ELSE IF Highest(A) < Highest(B) THEN 0 - 1
    ELSE IF Highest(A) > Highest(B) THEN 1
    ELSE HighToLow(A \ {Highest(A)}, B \ {Highest(B)})

OnePairOrder(a, b) ==
    IF PairValue(a) > PairValue(b) THEN 1
    ELSE IF PairValue(a) < PairValue(b) THEN 0 - 1
    ELSE HighToLow(Kickers(a), Kickers(b))

\* C7: for two ONEPAIR hands handcmp returns 1 or -1 by the paired values
\* (Ace as 14) when they differ, else by the three kickers from the highest
\* down, and 0 only when all three kickers match.
C7_OnePairTieBreak ==
    (Returned(r12) /\ MultiplesRank(hand1) = ONEPAIR /\ MultiplesRank(hand2) = ONEPAIR)
        => r12 = OnePairOrder(hand1, hand2)

RankStep == RankEntry \/ RankStraights \/ RankFlush

\* how far a call of rank_hand is from its return, at most
RankMeasure ==
    CASE pc = "entry" -> 4
      [] pc = "straights" -> 3 - passes
      [] pc = "flush" -> 1
      [] OTHER -> 0

\* C10: a call of rank_hand passes the label straights at most twice, a
\* second pass starting with no 1 in the array, and the call returns one of
\* the ten categories: a call under way is at its entry or can take its next
\* step, and every step brings it nearer to the return.
C10_BoundedRetry ==
    /\ [](passes <= 2)
    /\ []((pc = "straights" /\ passes >= 1) => \A i \in 1..5 : handvals[i] # 1)
    /\ [](Doing("rank_hand") =>
            (RankMeasure > 0 /\ (pc = "entry" \/ ENABLED (RankStraights \/ RankFlush))))
    /\ [](pc = "returned" => rank \in HIGHCARD..ROYALFLUSH)
    /\ [][RankStep => RankMeasure' < RankMeasure]_vars

C10_Witness == pc = "returned" /\ passes = 2

\* C11: on every path of handcmp each kicker local third_card1/2,
\* fourth_card1/2, fifth_card1/2 is assigned before it is read: a call that
\* has returned read no local that was still unassigned.
C11_NoUnassignedRead ==
    (todo = <<>> /\ Returned(r12)) => unassigned = {}

====
